---- MODULE Spec2Model ----
(***************************************************************************)
(* A model of poem-wasmhandler's endpoint.rs: the WasmEndpointBuilder      *)
(* (new / with_state / udf / build) and one WasmEndpoint::call with its    *)
(* background wasm task, its response channels, the reader of a streamed   *)
(* body and the upgrade tunnel.                                            *)
(***************************************************************************)
EXTENDS Integers, Sequences, FiniteSets, TLC

(***************************************************************************)
(* Bounds of the model.                                                    *)
(***************************************************************************)
\* number of builder calls (with_state / udf) before build
MaxBuilderOps == 4

(***************************************************************************)
(* Builder: the values the builder's inputs are drawn from.                *)
(***************************************************************************)
\* (module, name) pairs of the caller's own host functions; udf accepts any
\* of Keys, the names build() installs included
UserKeys == { <<"env", "f">>, <<"env", "g">> }

\* the names funcs::add_to_linker defines (the response-construction ABI)
FuncsKeys == { <<"poem", "send_response">> }

\* the names wasmtime_wasi::add_to_linker defines
WasiKeys == { <<"wasi_snapshot_preview1", "fd_write">> }

Keys == UserKeys \cup FuncsKeys \cup WasiKeys

\* host functions a caller can bind; "builtin" and "wasi" are the ones build() installs
UserFuncs == { "fa", "fb" }

NoFunc == "undefined"

UserStates == { "s0", "s1" }

\* Linker::new(&engine): nothing is defined
EmptyLinker == [k \in Keys |-> NoFunc]

Defined(l) == { k \in Keys : l[k] # NoFunc }

VARIABLES
    b_phase,        \* "building" | "built" | "failed" | "panicked"
    b_linker,       \* WasmEndpointBuilder.linker: Keys -> function or NoFunc
    b_user_state,   \* WasmEndpointBuilder.user_state
    b_module_ok,    \* whether WasmEndpointBuilder.module holds well-formed bytes
    b_result,       \* what build() returned: "none" | "Endpoint" | "CompileError" | "LinkError"
    b_panic_in,     \* the method whose unwrap() panicked: "none" | "udf" | "build"
    b_hist,         \* the builder calls made so far, in order
    ep_linker,      \* WasmEndpoint.linker
    ep_user_state   \* WasmEndpoint.user_state

builder_vars == << b_phase, b_linker, b_user_state, b_module_ok, b_result,
                   b_panic_in, b_hist, ep_linker, ep_user_state >>

VARIABLES
    fg_pc,              \* call: "idle" | "await_envelope" | "await_body" | "returned" | "panicked"
    on_upgrade,         \* call: req.take_upgrade().ok() is Some
    resp,               \* call: the local resp
    result,             \* what call returned
    response_q,         \* messages in the envelope channel
    response_rx,        \* response_receiver: "none" | "call" | "dropped"
    response_body_q,    \* messages in the body channel
    response_body_rx,   \* response_body_receiver: "none" | "call" | "stream" | "dropped"
    bg_pc,              \* spawned task: "none" | "instantiate" | "get_start" | "running" | "done"
    bg_log,             \* what the spawned task logged with tracing::error!
    bg_end,             \* how the spawned task ended: "none" | "instantiate_err" | "no_start" | "trap" | "ok"
    start_calls,        \* how many times the task has invoked start_func.call_async
    mod_ops,            \* host calls the module has made
    env_sent,           \* every envelope the module sent, in order
    body_sent,          \* every body message the module sent, in order
    reader_obs,         \* chunks the reader of a streamed body has been given
    reader_eos,         \* the reader of a streamed body has been given end-of-stream
    upgrade_outcome,    \* the host framework's negotiation: "pending" | "ok" | "err"
    upg_pc,             \* upgraded_stub and its task: "none" | "stub" | "await_upgrade" | "copying" | "done" | "dropped"
    relay_pc,           \* the nested relay task: "none" | "recv" | "closed" | "write_err"
    upgraded_q,         \* messages in the tunnel channel
    tun_sent,           \* every tunnel message the module sent, in order
    duplex_buf,         \* bytes in the duplex pipe, written by upgraded_writer, unread by upgraded_reader
    sandbox_read,       \* bytes the module has read from upgraded_reader
    t_in,               \* bytes that arrived on the transport's read half, not yet copied
    t_in_log,           \* every byte that arrived on the transport's read half
    t_in_end,           \* the transport's read half: "open" | "eof" | "err"
    t_out               \* bytes written to the transport's write half

resp_vars == << fg_pc, on_upgrade, resp, result, response_q, response_rx,
                response_body_q, response_body_rx >>
bg_vars == << bg_pc, bg_log, bg_end, start_calls, mod_ops, env_sent, body_sent >>
reader_vars == << reader_obs, reader_eos >>
tunnel_vars == << upgrade_outcome, upg_pc, relay_pc, upgraded_q, tun_sent,
                  duplex_buf, sandbox_read, t_in, t_in_log, t_in_end, t_out >>

call_vars == << resp_vars, bg_vars, reader_vars, tunnel_vars >>

VARIABLES
    cur,                \* which of two calls on the Endpoint the variables above hold: 1 | 2
    other               \* the locals, channels and tasks of the other call

sched_vars == << cur, other >>

vars == << builder_vars, call_vars, sched_vars >>

NoState == "unit"

(***************************************************************************)
(* Values of one request.                                                  *)
(***************************************************************************)
\* (status, headers) pairs a module answers with; the first is what
\* Response::default() already holds
StatusLines == { <<200, {}>>, <<404, { <<"x-a", "1">> }>> }

\* poem_wasm::ffi RESPONSE_BODY_*; "OTHER" stands for any other tag
RESPONSE_BODY_EMPTY == "EMPTY"
RESPONSE_BODY_BYTES == "BYTES"
RESPONSE_BODY_STREAM == "STREAM"
BodyTypes == { RESPONSE_BODY_EMPTY, RESPONSE_BODY_BYTES, RESPONSE_BODY_STREAM, "OTHER" }

\* the (status, headers, body_type) messages of the envelope channel
Envelopes ==
    { [status |-> sl[1], headers |-> sl[2], body_type |-> t] : sl \in StatusLines, t \in BodyTypes }

\* byte strings a module sends as body or tunnel data
Chunks == { <<1>>, <<2, 3>> }

MaxChunkLen == CHOOSE n \in 0..8 : \A c \in Chunks : Len(c) <= n /\ \E d \in Chunks : Len(d) = n

\* bytes arriving from the client on an upgraded connection
Bytes == { 7, 8 }

\* Body::empty()
EmptyBody == [stream |-> FALSE, data |-> << >>]

\* Response::default()
DefaultResponse == [status |-> 200, headers |-> {}, body |-> EmptyBody]

NoResult == [kind |-> "none", resp |-> DefaultResponse, err |-> ""]

\* the locals, channels and tasks of a call that has not started
IdleState ==
    [ fg_pc |-> "idle", on_upgrade |-> FALSE, resp |-> DefaultResponse, result |-> NoResult,
      response_q |-> << >>, response_rx |-> "none",
      response_body_q |-> << >>, response_body_rx |-> "none",
      bg_pc |-> "none", bg_log |-> << >>, bg_end |-> "none", start_calls |-> 0,
      mod_ops |-> 0, env_sent |-> << >>, body_sent |-> << >>,
      reader_obs |-> << >>, reader_eos |-> FALSE,
      upgrade_outcome |-> "pending", upg_pc |-> "none", relay_pc |-> "none",
      upgraded_q |-> << >>, tun_sent |-> << >>, duplex_buf |-> << >>,
      sandbox_read |-> << >>, t_in |-> << >>, t_in_log |-> << >>,
      t_in_end |-> "open", t_out |-> << >> ]

\* no call has started
IdleCall ==
    /\ cur = 1
    /\ other = IdleState
    /\ fg_pc = "idle"
    /\ on_upgrade = FALSE
    /\ resp = DefaultResponse
    /\ result = NoResult
    /\ response_q = << >>
    /\ response_rx = "none"
    /\ response_body_q = << >>
    /\ response_body_rx = "none"
    /\ bg_pc = "none"
    /\ bg_log = << >>
    /\ bg_end = "none"
    /\ start_calls = 0
    /\ mod_ops = 0
    /\ env_sent = << >>
    /\ body_sent = << >>
    /\ reader_obs = << >>
    /\ reader_eos = FALSE
    /\ upgrade_outcome = "pending"
    /\ upg_pc = "none"
    /\ relay_pc = "none"
    /\ upgraded_q = << >>
    /\ tun_sent = << >>
    /\ duplex_buf = << >>
    /\ sandbox_read = << >>
    /\ t_in = << >>
    /\ t_in_log = << >>
    /\ t_in_end = "open"
    /\ t_out = << >>

\* WasmEndpointBuilder::new: empty linker, unit state, the bytes as given
InitBuilder ==
    /\ IdleCall
    /\ b_phase = "building"
    /\ b_linker = EmptyLinker
    /\ b_user_state = NoState
    /\ b_module_ok \in BOOLEAN
    /\ b_result = "none"
    /\ b_panic_in = "none"
    /\ b_hist = << >>
    /\ ep_linker = EmptyLinker
    /\ ep_user_state = NoState

HistEntry(op, key, func, st) == [op |-> op, key |-> key, func |-> func, state |-> st]

\* with_state without the fresh Linker (the registrations survive)
with_state_keep(user_state) ==
    /\ b_phase = "building"
    /\ Len(b_hist) < MaxBuilderOps
    /\ b_user_state' = user_state
    /\ b_hist' = Append(b_hist, HistEntry("with_state", <<"", "">>, NoFunc, user_state))
    /\ UNCHANGED << b_linker, b_phase, b_module_ok, b_result, b_panic_in, ep_linker, ep_user_state >>
    /\ UNCHANGED << call_vars, sched_vars >>

\* with_state: the new state, a fresh Linker, the rest of self kept
with_state(user_state) ==
    /\ b_phase = "building"
    /\ Len(b_hist) < MaxBuilderOps
    /\ b_user_state' = user_state
    /\ b_linker' = EmptyLinker
    /\ b_hist' = Append(b_hist, HistEntry("with_state", <<"", "">>, NoFunc, user_state))
    /\ UNCHANGED << b_phase, b_module_ok, b_result, b_panic_in, ep_linker, ep_user_state >>
    /\ UNCHANGED << call_vars, sched_vars >>

\* func_wrap as with allow_shadowing(true): the later definition replaces the earlier
func_wrap_shadow(l, key, func) == [ok |-> TRUE, linker |-> [l EXCEPT ![key] = func]]

\* Linker::func_wrap without allow_shadowing: Err when the name is already defined
func_wrap(l, key, func) ==
    IF l[key] # NoFunc
    THEN [ok |-> FALSE, linker |-> l]
    ELSE [ok |-> TRUE, linker |-> [l EXCEPT ![key] = func]]

\* udf: func_wrap(...).unwrap(), then self
udf(key, func) ==
    /\ b_phase = "building"
    /\ Len(b_hist) < MaxBuilderOps
    /\ LET r == func_wrap(b_linker, key, func) IN
         /\ b_hist' = Append(b_hist, HistEntry("udf", key, func, b_user_state))
         /\ IF r.ok
            THEN /\ b_linker' = r.linker
                 /\ UNCHANGED << b_phase, b_panic_in >>
            ELSE /\ b_phase' = "panicked"
                 /\ b_panic_in' = "udf"
                 /\ UNCHANGED b_linker
    /\ UNCHANGED << b_user_state, b_module_ok, b_result, ep_linker, ep_user_state >>
    /\ UNCHANGED << call_vars, sched_vars >>

RECURSIVE add_all(_, _, _)
\* an add_to_linker: func_wrap for each of its names, stopping at the first Err
add_all(l, keys, func) ==
    IF keys = {} THEN [ok |-> TRUE, linker |-> l]
    ELSE LET k == CHOOSE x \in keys : TRUE
             r == func_wrap(l, k, func)
         IN IF r.ok THEN add_all(r.linker, keys \ {k}, func) ELSE r

\* build: Module::new(..)?, funcs::add_to_linker(..).unwrap(),
\* wasmtime_wasi::add_to_linker(..)?, then Ok(WasmEndpoint {..})
build ==
    /\ b_phase = "building"
    /\ b_hist' = Append(b_hist, HistEntry("build", <<"", "">>, NoFunc, b_user_state))
    /\ IF ~b_module_ok
       THEN /\ b_phase' = "failed"
            /\ b_result' = "CompileError"
            /\ UNCHANGED << b_linker, b_panic_in, ep_linker, ep_user_state >>
       ELSE LET f == add_all(b_linker, FuncsKeys, "builtin") IN
            IF ~f.ok
            THEN /\ b_phase' = "panicked"
                 /\ b_panic_in' = "build"
                 /\ UNCHANGED << b_linker, b_result, ep_linker, ep_user_state >>
            ELSE LET w == add_all(f.linker, WasiKeys, "wasi") IN
                 IF ~w.ok
                 THEN /\ b_phase' = "failed"
                      /\ b_result' = "LinkError"
                      /\ b_linker' = f.linker
                      /\ UNCHANGED << b_panic_in, ep_linker, ep_user_state >>
                 ELSE /\ b_phase' = "built"
                      /\ b_result' = "Endpoint"
                      /\ b_linker' = w.linker
                      /\ ep_linker' = w.linker
                      /\ ep_user_state' = b_user_state
                      /\ UNCHANGED b_panic_in
    /\ UNCHANGED << b_user_state, b_module_ok >>
    /\ UNCHANGED << call_vars, sched_vars >>

NextBuilder ==
    \/ \E s \in UserStates : with_state(s)
    \/ \E k \in Keys, f \in UserFuncs : udf(k, f)
    \/ build

SpecBuilder == InitBuilder /\ [][NextBuilder]_vars

(***************************************************************************)
(* Builder claims.  They are stated over b_hist, the calls the caller made, *)
(* against what the builder's state became.                                *)
(***************************************************************************)
\* index of the last with_state call among the first n calls (0: none)
LastWithState(h, n) ==
    LET S == { i \in 1..n : h[i].op = "with_state" }
    IN IF S = {} THEN 0 ELSE CHOOSE i \in S : \A j \in S : j <= i

\* the udf calls among the first n that no later with_state (up to n) follows
LiveUdfs(h, n) == { i \in (LastWithState(h, n) + 1)..n : h[i].op = "udf" }

\* call j registers a name that an earlier call, not reset since, registered
IsDuplicate(h, j) ==
    /\ h[j].op = "udf"
    /\ \E i \in LiveUdfs(h, j - 1) : h[i].key = h[j].key

\* some udf call names one of the built-in names and is still live at build
ShadowsBuiltin(h, builtin) ==
    /\ Len(h) > 0 /\ h[Len(h)].op = "build"
    /\ \E i \in LiveUdfs(h, Len(h)) : h[i].key \in builtin

\* C8: registering a second binding under a (namespace, name) that is already
\* registered always fails: the register call faults, no Endpoint is ever
\* produced from that builder, and the registry is not overwritten.
C8_DuplicateRegistrationFails ==
    \A j \in 1..Len(b_hist) :
        IsDuplicate(b_hist, j) =>
            /\ j = Len(b_hist)
            /\ b_phase = "panicked"
            /\ b_result = "none"
            /\ \E i \in LiveUdfs(b_hist, j - 1) :
                  /\ b_hist[i].key = b_hist[j].key
                  /\ b_linker[b_hist[j].key] = b_hist[i].func

C8_Witness ==
    /\ Len(b_hist) >= 2
    /\ IsDuplicate(b_hist, Len(b_hist))
    /\ \E i \in LiveUdfs(b_hist, Len(b_hist) - 1) :
          /\ b_hist[i].key = b_hist[Len(b_hist)].key
          /\ b_hist[i].func # b_hist[Len(b_hist)].func
    /\ b_phase = "panicked"

\* C9 (as claimed): a duplicate binding, between two caller registrations or
\* between a caller registration and a built-in one, shows up only as the
\* LinkError value build() returns: no other call fails and nothing panics.
C9_DuplicateIsLinkErrorFromBuild ==
    /\ b_phase # "panicked"
    /\ ( /\ b_phase # "building"
         /\ b_module_ok
         /\ \/ \E j \in 1..Len(b_hist) : IsDuplicate(b_hist, j)
            \/ ShadowsBuiltin(b_hist, FuncsKeys \cup WasiKeys) )
       => b_result = "LinkError"

\* C10: with_state resets the registry: a built Endpoint holds exactly the
\* bindings registered after the last with_state (each with the function it
\* was registered with) plus the built-in ones, with the last state given;
\* and a register call faults only on a name registered since the last
\* with_state, so a name registered before it can be registered again.
C10_WithStateResetsRegistry ==
    /\ b_phase = "built" =>
          LET n == Len(b_hist)
              live == LiveUdfs(b_hist, n)
              w == LastWithState(b_hist, n)
          IN /\ Defined(ep_linker) =
                    { b_hist[i].key : i \in live } \cup FuncsKeys \cup WasiKeys
             /\ \A i \in live : ep_linker[b_hist[i].key] = b_hist[i].func
             /\ ep_user_state = IF w = 0 THEN NoState ELSE b_hist[w].state
    /\ b_panic_in = "udf" => IsDuplicate(b_hist, Len(b_hist))

\* a name registered, discarded by with_state, registered again, and built
C10_Witness ==
    /\ b_phase = "built"
    /\ \E i, w, j \in 1..Len(b_hist) :
          /\ i < w /\ w < j
          /\ b_hist[i].op = "udf" /\ b_hist[w].op = "with_state" /\ b_hist[j].op = "udf"
          /\ b_hist[i].key = b_hist[j].key
          /\ b_hist[i].func # b_hist[j].func
          /\ ep_linker[b_hist[j].key] = b_hist[j].func

(***************************************************************************)
(* WasmEndpoint::call.  One request on an Endpoint built by                 *)
(* new(bytes).udf("env", "f", fa).build().                                  *)
(***************************************************************************)
\* host calls one module run makes (sends on the three channels)
MaxModOps == 3

\* bytes the client sends on the upgraded connection
MaxTransportIn == 2

\* tokio::io::duplex(4096), scaled down
DuplexCap == 2

BuiltEndpoint ==
    LET l0 == func_wrap(EmptyLinker, <<"env", "f">>, "fa").linker
        l1 == add_all(l0, FuncsKeys, "builtin").linker
        l2 == add_all(l1, WasiKeys, "wasi").linker
    IN /\ b_phase = "built"
       /\ b_linker = l2
       /\ b_user_state = NoState
       /\ b_module_ok = TRUE
       /\ b_result = "Endpoint"
       /\ b_panic_in = "none"
       /\ b_hist = << HistEntry("udf", <<"env", "f">>, "fa", NoState),
                      HistEntry("build", <<"", "">>, NoFunc, NoState) >>
       /\ ep_linker = l2
       /\ ep_user_state = NoState

Init == BuiltEndpoint /\ IdleCall

RECURSIVE Flatten(_)
\* the bytes of a sequence of messages, in order
Flatten(msgs) == IF msgs = << >> THEN << >> ELSE Head(msgs) \o Flatten(Tail(msgs))

\* the store (and with it every sender and upgraded_reader) lives in the spawned task
StoreAlive == bg_pc \in { "instantiate", "get_start", "running" }

\* upgraded_receiver is held by the call, then the upgrade task, then the relay
TunnelRxAlive == upg_pc \in { "stub", "await_upgrade" } \/ relay_pc = "recv"

\* an unbounded channel that hands messages out newest first
chan_send_lifo(q, m) == << m >> \o q

\* UnboundedSender::send on a channel whose receiver is alive
chan_send(q, m) == Append(q, m)

\* lines 85-136: take_upgrade, the channels, the duplex, the store, tokio::spawn
CallStart(up) ==
    /\ fg_pc = "idle"
    /\ fg_pc' = "await_envelope"
    /\ on_upgrade' = up
    /\ response_rx' = "call"
    /\ response_body_rx' = "call"
    /\ upg_pc' = IF up THEN "stub" ELSE "none"
    /\ bg_pc' = "instantiate"
    /\ UNCHANGED << resp, result, response_q, response_body_q >>
    /\ UNCHANGED << bg_log, bg_end, start_calls, mod_ops, env_sent, body_sent >>
    /\ UNCHANGED reader_vars
    /\ UNCHANGED << upgrade_outcome, relay_pc, upgraded_q, tun_sent, duplex_buf,
                    sandbox_read, t_in, t_in_log, t_in_end, t_out >>
    /\ UNCHANGED << builder_vars, sched_vars >>

(***************************************************************************)
(* The spawned task, lines 114-133.                                        *)
(***************************************************************************)
\* the task returns: store dropped, so the senders and upgraded_reader are gone
BgEnd(how, log) ==
    /\ bg_pc' = "done"
    /\ bg_end' = how
    /\ bg_log' = log
    /\ duplex_buf' = << >>

\* what the task logs when start_func.call_async returns Err: nothing
TrapLog_silent == bg_log

\* what the task logs when start_func.call_async returns Err
TrapLog == Append(bg_log, "wasm error")

BgInstantiate(ok) ==
    /\ bg_pc = "instantiate"
    /\ IF ok
       THEN /\ bg_pc' = "get_start"
            /\ UNCHANGED << bg_log, bg_end, duplex_buf >>
       ELSE BgEnd("instantiate_err", Append(bg_log, "wasm instantiate error"))
    /\ UNCHANGED << start_calls, mod_ops, env_sent, body_sent >>
    /\ UNCHANGED << resp_vars, reader_vars >>
    /\ UNCHANGED << upgrade_outcome, upg_pc, relay_pc, upgraded_q, tun_sent,
                    sandbox_read, t_in, t_in_log, t_in_end, t_out >>
    /\ UNCHANGED << builder_vars, sched_vars >>

BgGetStart(ok) ==
    /\ bg_pc = "get_start"
    /\ IF ok
       THEN /\ bg_pc' = "running"
            /\ start_calls' = start_calls + 1
            /\ UNCHANGED << bg_log, bg_end, duplex_buf >>
       ELSE /\ BgEnd("no_start", Append(bg_log, "wasm error"))
            /\ UNCHANGED start_calls
    /\ UNCHANGED << mod_ops, env_sent, body_sent >>
    /\ UNCHANGED << resp_vars, reader_vars >>
    /\ UNCHANGED << upgrade_outcome, upg_pc, relay_pc, upgraded_q, tun_sent,
                    sandbox_read, t_in, t_in_log, t_in_end, t_out >>
    /\ UNCHANGED << builder_vars, sched_vars >>

\* start_func.call_async returns Ok
BgReturn ==
    /\ bg_pc = "running"
    /\ BgEnd("ok", bg_log)
    /\ UNCHANGED << start_calls, mod_ops, env_sent, body_sent >>
    /\ UNCHANGED << resp_vars, reader_vars >>
    /\ UNCHANGED << upgrade_outcome, upg_pc, relay_pc, upgraded_q, tun_sent,
                    sandbox_read, t_in, t_in_log, t_in_end, t_out >>
    /\ UNCHANGED << builder_vars, sched_vars >>

\* a task that logs the trap and invokes the entry point again
BgTrap_retry ==
    /\ bg_pc = "running"
    /\ start_calls < 3
    /\ start_calls' = start_calls + 1
    /\ bg_log' = TrapLog
    /\ UNCHANGED << bg_pc, bg_end, duplex_buf >>
    /\ UNCHANGED << mod_ops, env_sent, body_sent >>
    /\ UNCHANGED << resp_vars, reader_vars >>
    /\ UNCHANGED << upgrade_outcome, upg_pc, relay_pc, upgraded_q, tun_sent,
                    sandbox_read, t_in, t_in_log, t_in_end, t_out >>
    /\ UNCHANGED << builder_vars, sched_vars >>

\* start_func.call_async returns Err (a trap)
BgTrap ==
    /\ bg_pc = "running"
    /\ BgEnd("trap", TrapLog)
    /\ UNCHANGED << start_calls, mod_ops, env_sent, body_sent >>
    /\ UNCHANGED << resp_vars, reader_vars >>
    /\ UNCHANGED << upgrade_outcome, upg_pc, relay_pc, upgraded_q, tun_sent,
                    sandbox_read, t_in, t_in_log, t_in_end, t_out >>
    /\ UNCHANGED << builder_vars, sched_vars >>

(***************************************************************************)
(* The module's host calls while start runs: sends on response_sender,     *)
(* response_body_sender, upgraded_sender, and reads of upgraded_reader.    *)
(***************************************************************************)
ModSendResponse(env) ==
    /\ bg_pc = "running"
    /\ mod_ops < MaxModOps
    /\ mod_ops' = mod_ops + 1
    /\ env_sent' = Append(env_sent, env)
    /\ response_q' = IF response_rx = "call" THEN chan_send(response_q, env) ELSE response_q
    /\ UNCHANGED << fg_pc, on_upgrade, resp, result, response_rx, response_body_q,
                    response_body_rx >>
    /\ UNCHANGED << bg_pc, bg_log, bg_end, start_calls, body_sent >>
    /\ UNCHANGED << reader_vars, tunnel_vars, builder_vars, sched_vars >>

ModSendBody(data) ==
    /\ bg_pc = "running"
    /\ mod_ops < MaxModOps
    /\ mod_ops' = mod_ops + 1
    /\ body_sent' = Append(body_sent, data)
    /\ response_body_q' = IF response_body_rx \in { "call", "stream" }
                          THEN chan_send(response_body_q, data)
                          ELSE response_body_q
    /\ UNCHANGED << fg_pc, on_upgrade, resp, result, response_q, response_rx,
                    response_body_rx >>
    /\ UNCHANGED << bg_pc, bg_log, bg_end, start_calls, env_sent >>
    /\ UNCHANGED << reader_vars, tunnel_vars, builder_vars, sched_vars >>

ModSendUpgraded(data) ==
    /\ bg_pc = "running"
    /\ on_upgrade
    /\ mod_ops < MaxModOps
    /\ mod_ops' = mod_ops + 1
    /\ tun_sent' = Append(tun_sent, data)
    /\ upgraded_q' = IF TunnelRxAlive THEN chan_send(upgraded_q, data) ELSE upgraded_q
    /\ UNCHANGED << bg_pc, bg_log, bg_end, start_calls, env_sent, body_sent >>
    /\ UNCHANGED << upgrade_outcome, upg_pc, relay_pc, duplex_buf, sandbox_read,
                    t_in, t_in_log, t_in_end, t_out >>
    /\ UNCHANGED << resp_vars, reader_vars, builder_vars, sched_vars >>

\* the module reads n bytes from upgraded_reader
ModReadUpgraded(n) ==
    /\ bg_pc = "running"
    /\ on_upgrade
    /\ n \in 1..Len(duplex_buf)
    /\ sandbox_read' = sandbox_read \o SubSeq(duplex_buf, 1, n)
    /\ duplex_buf' = SubSeq(duplex_buf, n + 1, Len(duplex_buf))
    /\ UNCHANGED << upgrade_outcome, upg_pc, relay_pc, upgraded_q, tun_sent,
                    t_in, t_in_log, t_in_end, t_out >>
    /\ UNCHANGED << resp_vars, bg_vars, reader_vars, builder_vars, sched_vars >>

(***************************************************************************)
(* The foreground of call, lines 138-189.                                  *)
(***************************************************************************)
\* line 166 returning the untouched default response instead of the error
IncompleteResult_default == [kind |-> "Ok", resp |-> DefaultResponse, err |-> ""]

\* line 166: Err(WasmHandlerError::IncompleteResponse.into())
IncompleteResult == [kind |-> "Err", resp |-> DefaultResponse, err |-> "IncompleteResponse"]

\* line 188 if the call looked at the negotiation before returning
CallReturn_upgrade(r) ==
    IF on_upgrade /\ upgrade_outcome = "err"
    THEN [kind |-> "Err", resp |-> DefaultResponse, err |-> "UpgradeError"]
    ELSE [kind |-> "Ok", resp |-> r, err |-> ""]

\* line 188: Ok(resp)
CallReturn(r) == [kind |-> "Ok", resp |-> r, err |-> ""]

\* lines 143-144 without the headers
ApplyEnvelope_status_only(r, env) == [r EXCEPT !.status = env.status]

\* lines 143-144: set_status(status); *headers_mut() = headers
ApplyEnvelope(r, env) == [r EXCEPT !.status = env.status, !.headers = env.headers]

\* lines 149-153 ignoring the message received
BytesBody_dropped(some, data) == EmptyBody

\* lines 149-153: the body of a BYTES response from what recv() gave
BytesBody(some, data) == IF some THEN [stream |-> FALSE, data |-> data] ELSE EmptyBody

\* lines 156-161: the body is the receiver itself, read lazily
StreamBody == [stream |-> TRUE, data |-> << >>]

\* lines 169-188: spawn the upgrade task if there is one to spawn, drop the
\* receivers the response does not hold, return Ok(resp)
Finish(r, bq) ==
    /\ fg_pc' = "returned"
    /\ resp' = r
    /\ result' = CallReturn(r)
    /\ response_q' = << >>
    /\ response_rx' = "dropped"
    /\ response_body_rx' = IF r.body.stream THEN "stream" ELSE "dropped"
    /\ response_body_q' = IF r.body.stream THEN bq ELSE << >>
    /\ upg_pc' = IF on_upgrade /\ upg_pc = "stub" THEN "await_upgrade" ELSE upg_pc
    /\ UNCHANGED << on_upgrade, upgraded_q >>

\* a call that spawns the upgrade task of lines 173-185 on its way out with an error
Abort_spawns(pc, res) ==
    /\ fg_pc' = pc
    /\ result' = res
    /\ response_q' = << >>
    /\ response_rx' = "dropped"
    /\ response_body_q' = << >>
    /\ response_body_rx' = "dropped"
    /\ upg_pc' = IF upg_pc = "stub" THEN "await_upgrade" ELSE upg_pc
    /\ UNCHANGED << on_upgrade, resp, upgraded_q >>

\* the call ends without a response: every local is dropped
Abort(pc, res) ==
    /\ fg_pc' = pc
    /\ result' = res
    /\ response_q' = << >>
    /\ response_rx' = "dropped"
    /\ response_body_q' = << >>
    /\ response_body_rx' = "dropped"
    /\ upg_pc' = IF upg_pc = "stub" THEN "dropped" ELSE upg_pc
    /\ upgraded_q' = << >>
    /\ UNCHANGED << on_upgrade, resp >>

\* a foreground that starts the body afresh when it has the envelope: body
\* messages queued before are thrown away
FgRecvEnvelope_flushes ==
    /\ fg_pc = "await_envelope"
    /\ \/ /\ response_q # << >>
          /\ LET env == Head(response_q)
                 r == ApplyEnvelope(resp, env)
             IN CASE env.body_type = RESPONSE_BODY_EMPTY ->
                       Finish([r EXCEPT !.body = EmptyBody], << >>)
                  [] env.body_type = RESPONSE_BODY_BYTES ->
                       /\ fg_pc' = "await_body"
                       /\ resp' = r
                       /\ response_q' = Tail(response_q)
                       /\ response_body_q' = << >>
                       /\ UNCHANGED << on_upgrade, result, response_rx,
                                       response_body_rx, upg_pc, upgraded_q >>
                  [] env.body_type = RESPONSE_BODY_STREAM ->
                       Finish([r EXCEPT !.body = StreamBody], << >>)
                  [] OTHER -> Abort("panicked", result)
       \/ /\ response_q = << >>
          /\ ~StoreAlive
          /\ Abort("returned", IncompleteResult)
    /\ UNCHANGED << bg_vars, reader_vars >>
    /\ UNCHANGED << upgrade_outcome, relay_pc, tun_sent, duplex_buf, sandbox_read,
                    t_in, t_in_log, t_in_end, t_out >>
    /\ UNCHANGED << builder_vars, sched_vars >>

\* lines 141-147, 155-167: response_receiver.recv().await and the dispatch
FgRecvEnvelope ==
    /\ fg_pc = "await_envelope"
    /\ \/ /\ response_q # << >>
          /\ LET env == Head(response_q)
                 r == ApplyEnvelope(resp, env)
             IN CASE env.body_type = RESPONSE_BODY_EMPTY ->
                       Finish([r EXCEPT !.body = EmptyBody], response_body_q)
                  [] env.body_type = RESPONSE_BODY_BYTES ->
                       /\ fg_pc' = "await_body"
                       /\ resp' = r
                       /\ response_q' = Tail(response_q)
                       /\ UNCHANGED << on_upgrade, result, response_rx, response_body_q,
                                       response_body_rx, upg_pc, upgraded_q >>
                  [] env.body_type = RESPONSE_BODY_STREAM ->
                       Finish([r EXCEPT !.body = StreamBody], response_body_q)
                  [] OTHER -> Abort("panicked", result)
       \/ /\ response_q = << >>
          /\ ~StoreAlive
          /\ Abort("returned", IncompleteResult)
    /\ UNCHANGED << bg_vars, reader_vars >>
    /\ UNCHANGED << upgrade_outcome, relay_pc, tun_sent, duplex_buf, sandbox_read,
                    t_in, t_in_log, t_in_end, t_out >>
    /\ UNCHANGED << builder_vars, sched_vars >>

\* a foreground that takes the body only once the body channel has closed
FgRecvBody_waits_close ==
    /\ fg_pc = "await_body"
    /\ ~StoreAlive
    /\ \/ /\ response_body_q # << >>
          /\ Finish([resp EXCEPT !.body = BytesBody(TRUE, Head(response_body_q))],
                    Tail(response_body_q))
       \/ /\ response_body_q = << >>
          /\ Finish([resp EXCEPT !.body = BytesBody(FALSE, << >>)], response_body_q)
    /\ UNCHANGED << bg_vars, reader_vars >>
    /\ UNCHANGED << upgrade_outcome, relay_pc, tun_sent, duplex_buf, sandbox_read,
                    t_in, t_in_log, t_in_end, t_out >>
    /\ UNCHANGED << builder_vars, sched_vars >>

\* a foreground that polls the envelope channel again before it returns
FgRecvBody_last_envelope ==
    /\ fg_pc = "await_body"
    /\ LET r == IF response_q = << >> THEN resp
                ELSE ApplyEnvelope(resp, response_q[Len(response_q)])
       IN \/ /\ response_body_q # << >>
             /\ Finish([r EXCEPT !.body = BytesBody(TRUE, Head(response_body_q))],
                       Tail(response_body_q))
          \/ /\ response_body_q = << >>
             /\ ~StoreAlive
             /\ Finish([r EXCEPT !.body = BytesBody(FALSE, << >>)], response_body_q)
    /\ UNCHANGED << bg_vars, reader_vars >>
    /\ UNCHANGED << upgrade_outcome, relay_pc, tun_sent, duplex_buf, sandbox_read,
                    t_in, t_in_log, t_in_end, t_out >>
    /\ UNCHANGED << builder_vars, sched_vars >>

\* lines 148-154: response_body_receiver.recv().await
FgRecvBody ==
    /\ fg_pc = "await_body"
    /\ \/ /\ response_body_q # << >>
          /\ Finish([resp EXCEPT !.body = BytesBody(TRUE, Head(response_body_q))],
                    Tail(response_body_q))
       \/ /\ response_body_q = << >>
          /\ ~StoreAlive
          /\ Finish([resp EXCEPT !.body = BytesBody(FALSE, << >>)], response_body_q)
    /\ UNCHANGED << bg_vars, reader_vars >>
    /\ UNCHANGED << upgrade_outcome, relay_pc, tun_sent, duplex_buf, sandbox_read,
                    t_in, t_in_log, t_in_end, t_out >>
    /\ UNCHANGED << builder_vars, sched_vars >>

\* whoever holds the response polls the UnboundedReceiverStream of lines 156-161
ReaderPoll ==
    /\ result.kind = "Ok"
    /\ result.resp.body.stream
    /\ ~reader_eos
    /\ \/ /\ response_body_q # << >>
          /\ reader_obs' = Append(reader_obs, Head(response_body_q))
          /\ response_body_q' = Tail(response_body_q)
          /\ UNCHANGED reader_eos
       \/ /\ response_body_q = << >>
          /\ ~StoreAlive
          /\ reader_eos' = TRUE
          /\ UNCHANGED << reader_obs, response_body_q >>
    /\ UNCHANGED << fg_pc, on_upgrade, resp, result, response_q, response_rx,
                    response_body_rx >>
    /\ UNCHANGED << bg_vars, tunnel_vars, builder_vars, sched_vars >>

\* dropping the future of call aborts the task it spawned
FgAbandon_cancels ==
    /\ fg_pc \in { "await_envelope", "await_body" }
    /\ Abort("abandoned", result)
    /\ bg_pc' = "done"
    /\ bg_end' = "cancelled"
    /\ UNCHANGED << bg_log, start_calls, mod_ops, env_sent, body_sent >>
    /\ UNCHANGED reader_vars
    /\ UNCHANGED << upgrade_outcome, relay_pc, tun_sent, duplex_buf, sandbox_read,
                    t_in, t_in_log, t_in_end, t_out >>
    /\ UNCHANGED << builder_vars, sched_vars >>

\* the caller drops the future of call at one of its awaits, lines 141 and 149:
\* the receivers, resp and the upgrade stub are dropped; the JoinHandle of line
\* 114 was dropped at the spawn, which detaches the task
FgAbandon ==
    /\ fg_pc \in { "await_envelope", "await_body" }
    /\ Abort("abandoned", result)
    /\ UNCHANGED << bg_vars, reader_vars >>
    /\ UNCHANGED << upgrade_outcome, relay_pc, tun_sent, duplex_buf, sandbox_read,
                    t_in, t_in_log, t_in_end, t_out >>
    /\ UNCHANGED << builder_vars, sched_vars >>

(***************************************************************************)
(* The upgrade task and the tunnel, lines 170-186.                         *)
(***************************************************************************)
\* the host framework settles the negotiation the OnUpgrade future waits for
HostUpgrade(ok) ==
    /\ upg_pc \in { "stub", "await_upgrade" }
    /\ upgrade_outcome = "pending"
    /\ upgrade_outcome' = IF ok THEN "ok" ELSE "err"
    /\ UNCHANGED << upg_pc, relay_pc, upgraded_q, tun_sent, duplex_buf, sandbox_read,
                    t_in, t_in_log, t_in_end, t_out >>
    /\ UNCHANGED << resp_vars, bg_vars, reader_vars, builder_vars, sched_vars >>

\* lines 174-176: on_upgrade.await; Ok: split and spawn the relay; Err: the task ends
UpgradeAwait ==
    /\ upg_pc = "await_upgrade"
    /\ upgrade_outcome # "pending"
    /\ IF upgrade_outcome = "ok"
       THEN /\ upg_pc' = "copying"
            /\ relay_pc' = "recv"
            /\ UNCHANGED upgraded_q
       ELSE /\ upg_pc' = "abandoned"
            /\ upgraded_q' = << >>
            /\ UNCHANGED relay_pc
    /\ UNCHANGED << upgrade_outcome, tun_sent, duplex_buf, sandbox_read,
                    t_in, t_in_log, t_in_end, t_out >>
    /\ UNCHANGED << resp_vars, bg_vars, reader_vars, builder_vars, sched_vars >>

\* AsyncWriteExt::write(&data): how many bytes of data one call may accept
WriteCounts(data) == IF data = << >> THEN { 0 } ELSE 1..Len(data)

\* lines 177-178: recv() gave a message, writer.write(&data) returned Ok(n)
RelayWrite(n) ==
    /\ relay_pc = "recv"
    /\ upgraded_q # << >>
    /\ n \in WriteCounts(Head(upgraded_q))
    /\ t_out' = t_out \o SubSeq(Head(upgraded_q), 1, n)
    /\ upgraded_q' = Tail(upgraded_q)
    /\ UNCHANGED << upgrade_outcome, upg_pc, relay_pc, tun_sent, duplex_buf,
                    sandbox_read, t_in, t_in_log, t_in_end >>
    /\ UNCHANGED << resp_vars, bg_vars, reader_vars, builder_vars, sched_vars >>

\* lines 178-180: writer.write(&data) returned Err: break
RelayWriteErr ==
    /\ relay_pc = "recv"
    /\ upgraded_q # << >>
    /\ relay_pc' = "write_err"
    /\ upgraded_q' = << >>
    /\ UNCHANGED << upgrade_outcome, upg_pc, tun_sent, duplex_buf, sandbox_read,
                    t_in, t_in_log, t_in_end, t_out >>
    /\ UNCHANGED << resp_vars, bg_vars, reader_vars, builder_vars, sched_vars >>

\* line 177: recv() gave None: the loop ends
RelayClosed ==
    /\ relay_pc = "recv"
    /\ upgraded_q = << >>
    /\ ~StoreAlive
    /\ relay_pc' = "closed"
    /\ UNCHANGED << upgrade_outcome, upg_pc, upgraded_q, tun_sent, duplex_buf,
                    sandbox_read, t_in, t_in_log, t_in_end, t_out >>
    /\ UNCHANGED << resp_vars, bg_vars, reader_vars, builder_vars, sched_vars >>

\* the client's bytes reach the transport's read half
TransportArrive(b) ==
    /\ upgrade_outcome = "ok"
    /\ upg_pc = "copying"
    /\ t_in_end = "open"
    /\ Len(t_in_log) < MaxTransportIn
    /\ t_in' = Append(t_in, b)
    /\ t_in_log' = Append(t_in_log, b)
    /\ UNCHANGED << upgrade_outcome, upg_pc, relay_pc, upgraded_q, tun_sent,
                    duplex_buf, sandbox_read, t_in_end, t_out >>
    /\ UNCHANGED << resp_vars, bg_vars, reader_vars, builder_vars, sched_vars >>

\* the client closes its side, or the connection breaks
TransportEnd(how) ==
    /\ upgrade_outcome = "ok"
    /\ upg_pc = "copying"
    /\ t_in_end = "open"
    /\ t_in_end' = how
    /\ UNCHANGED << upgrade_outcome, upg_pc, relay_pc, upgraded_q, tun_sent,
                    duplex_buf, sandbox_read, t_in, t_in_log, t_out >>
    /\ UNCHANGED << resp_vars, bg_vars, reader_vars, builder_vars, sched_vars >>

\* line 183, tokio::io::copy: n bytes move from the read half into the duplex
CopyBytes(n) ==
    /\ upg_pc = "copying"
    /\ StoreAlive
    /\ n \in 1..Len(t_in)
    /\ n <= DuplexCap - Len(duplex_buf)
    /\ duplex_buf' = duplex_buf \o SubSeq(t_in, 1, n)
    /\ t_in' = SubSeq(t_in, n + 1, Len(t_in))
    /\ UNCHANGED << upgrade_outcome, upg_pc, relay_pc, upgraded_q, tun_sent,
                    sandbox_read, t_in_log, t_in_end, t_out >>
    /\ UNCHANGED << resp_vars, bg_vars, reader_vars, builder_vars, sched_vars >>

\* an upgrade task that takes the relay down with it when the copy returns
CopyEnd_stops_relay ==
    /\ upg_pc = "copying"
    /\ \/ t_in = << >> /\ t_in_end # "open"
       \/ t_in # << >> /\ ~StoreAlive
    /\ upg_pc' = "done"
    /\ relay_pc' = IF relay_pc = "recv" THEN "closed" ELSE relay_pc
    /\ upgraded_q' = << >>
    /\ UNCHANGED << upgrade_outcome, tun_sent, duplex_buf,
                    sandbox_read, t_in, t_in_log, t_in_end, t_out >>
    /\ UNCHANGED << resp_vars, bg_vars, reader_vars, builder_vars, sched_vars >>

\* line 183, tokio::io::copy returns: end-of-stream or an error on the read
\* half, or the duplex's other end is gone; upgraded_writer is dropped with the task
CopyEnd ==
    /\ upg_pc = "copying"
    /\ \/ t_in = << >> /\ t_in_end # "open"
       \/ t_in # << >> /\ ~StoreAlive
    /\ upg_pc' = "done"
    /\ UNCHANGED << upgrade_outcome, relay_pc, upgraded_q, tun_sent, duplex_buf,
                    sandbox_read, t_in, t_in_log, t_in_end, t_out >>
    /\ UNCHANGED << resp_vars, bg_vars, reader_vars, builder_vars, sched_vars >>

\* a request, its module and its response, up to the outcome of the negotiation
Next ==
    \/ \E up \in BOOLEAN : CallStart(up)
    \/ \E ok \in BOOLEAN : BgInstantiate(ok)
    \/ \E ok \in BOOLEAN : BgGetStart(ok)
    \/ BgReturn
    \/ BgTrap
    \/ \E env \in Envelopes : ModSendResponse(env)
    \/ \E data \in Chunks : ModSendBody(data)
    \/ FgRecvEnvelope
    \/ FgRecvBody
    \/ ReaderPoll
    \/ \E ok \in BOOLEAN : HostUpgrade(ok)
    \/ UpgradeAwait

Spec == Init /\ [][Next]_vars

\* a request whose caller may stop polling call
NextAbandon ==
    \/ Next
    \/ FgAbandon

SpecAbandon == Init /\ [][NextAbandon]_vars

\* the same with the bytes of the tunnel
NextTunnel ==
    \/ Next
    \/ \E data \in Chunks : ModSendUpgraded(data)
    \/ \E n \in 1..DuplexCap : ModReadUpgraded(n)
    \/ \E n \in 0..MaxChunkLen : RelayWrite(n)
    \/ RelayWriteErr
    \/ RelayClosed
    \/ \E b \in Bytes : TransportArrive(b)
    \/ \E how \in { "eof", "err" } : TransportEnd(how)
    \/ \E n \in 1..MaxTransportIn : CopyBytes(n)
    \/ CopyEnd

SpecTunnel == Init /\ [][NextTunnel]_vars

\* host calls of the module in the runs that follow a request into its tunnel
MaxUpgradeOps == 2

UpgradeBudget == mod_ops < MaxUpgradeOps

\* the whole lifecycle of a request, from the spawn to the end of its tunnel
NextUpgrade ==
    \/ \E up \in BOOLEAN : CallStart(up)
    \/ \E ok \in BOOLEAN : BgInstantiate(ok)
    \/ \E ok \in BOOLEAN : BgGetStart(ok)
    \/ BgReturn
    \/ BgTrap
    \/ \E env \in Envelopes : UpgradeBudget /\ ModSendResponse(env)
    \/ \E data \in Chunks : UpgradeBudget /\ ModSendBody(data)
    \/ \E data \in Chunks : UpgradeBudget /\ ModSendUpgraded(data)
    \/ \E n \in 1..DuplexCap : ModReadUpgraded(n)
    \/ FgRecvEnvelope
    \/ FgRecvBody
    \/ \E ok \in BOOLEAN : HostUpgrade(ok)
    \/ UpgradeAwait
    \/ \E n \in 0..MaxChunkLen : RelayWrite(n)
    \/ RelayWriteErr
    \/ RelayClosed
    \/ \E b \in Bytes : TransportArrive(b)
    \/ \E how \in { "eof", "err" } : TransportEnd(how)
    \/ \E n \in 1..MaxTransportIn : CopyBytes(n)
    \/ CopyEnd

SpecUpgrade == Init /\ [][NextUpgrade]_vars

(***************************************************************************)
(* Two calls in flight on one Endpoint, lines 84-136: everything a call    *)
(* works with is a local of that call or is moved into the task it spawns. *)
(* The variables above hold the call that takes the next step; other holds *)
(* the call that does not.                                                 *)
(***************************************************************************)
\* the locals, channels and tasks of the call the variables hold
CallState ==
    [ fg_pc |-> fg_pc,
      on_upgrade |-> on_upgrade,
      resp |-> resp,
      result |-> result,
      response_q |-> response_q,
      response_rx |-> response_rx,
      response_body_q |-> response_body_q,
      response_body_rx |-> response_body_rx,
      bg_pc |-> bg_pc,
      bg_log |-> bg_log,
      bg_end |-> bg_end,
      start_calls |-> start_calls,
      mod_ops |-> mod_ops,
      env_sent |-> env_sent,
      body_sent |-> body_sent,
      reader_obs |-> reader_obs,
      reader_eos |-> reader_eos,
      upgrade_outcome |-> upgrade_outcome,
      upg_pc |-> upg_pc,
      relay_pc |-> relay_pc,
      upgraded_q |-> upgraded_q,
      tun_sent |-> tun_sent,
      duplex_buf |-> duplex_buf,
      sandbox_read |-> sandbox_read,
      t_in |-> t_in,
      t_in_log |-> t_in_log,
      t_in_end |-> t_in_end,
      t_out |-> t_out ]

\* the variables take the values of st
Load(st) ==
    /\ fg_pc' = st.fg_pc
    /\ on_upgrade' = st.on_upgrade
    /\ resp' = st.resp
    /\ result' = st.result
    /\ response_q' = st.response_q
    /\ response_rx' = st.response_rx
    /\ response_body_q' = st.response_body_q
    /\ response_body_rx' = st.response_body_rx
    /\ bg_pc' = st.bg_pc
    /\ bg_log' = st.bg_log
    /\ bg_end' = st.bg_end
    /\ start_calls' = st.start_calls
    /\ mod_ops' = st.mod_ops
    /\ env_sent' = st.env_sent
    /\ body_sent' = st.body_sent
    /\ reader_obs' = st.reader_obs
    /\ reader_eos' = st.reader_eos
    /\ upgrade_outcome' = st.upgrade_outcome
    /\ upg_pc' = st.upg_pc
    /\ relay_pc' = st.relay_pc
    /\ upgraded_q' = st.upgraded_q
    /\ tun_sent' = st.tun_sent
    /\ duplex_buf' = st.duplex_buf
    /\ sandbox_read' = st.sandbox_read
    /\ t_in' = st.t_in
    /\ t_in_log' = st.t_in_log
    /\ t_in_end' = st.t_in_end
    /\ t_out' = st.t_out

\* the other call runs next, with the envelope channel a field of the Endpoint
Switch_shared_channel ==
    /\ cur' = 3 - cur
    /\ other' = CallState
    /\ Load([other EXCEPT !.response_q = response_q])
    /\ UNCHANGED builder_vars

\* the worker pool runs the other call next
Switch ==
    /\ cur' = 3 - cur
    /\ other' = CallState
    /\ Load(other)
    /\ UNCHANGED builder_vars

\* host calls the modules of two concurrent calls make between them
MaxTwoOps == 2

TwoBudget == mod_ops + other.mod_ops < MaxTwoOps

NextTwo ==
    \/ \E up \in BOOLEAN : CallStart(up)
    \/ \E ok \in BOOLEAN : BgInstantiate(ok)
    \/ \E ok \in BOOLEAN : BgGetStart(ok)
    \/ BgReturn
    \/ BgTrap
    \/ \E env \in Envelopes : TwoBudget /\ ModSendResponse(env)
    \/ \E data \in Chunks : TwoBudget /\ ModSendBody(data)
    \/ FgRecvEnvelope
    \/ FgRecvBody
    \/ ReaderPoll
    \/ Switch

SpecTwo == Init /\ [][NextTwo]_vars

(***************************************************************************)
(* Claims about one call.  They compare what call returned with env_sent,  *)
(* body_sent and tun_sent, the messages the module sent.                   *)
(***************************************************************************)
Returned == fg_pc = "returned"

\* C1: when the module has sent no envelope by the time the envelope channel
\* closes, call returns the error IncompleteResponse, only once the task has
\* ended, and never a response value.
C1_NoEnvelopeIsIncompleteResponse ==
    (Returned /\ env_sent = << >>) =>
        /\ result.kind = "Err"
        /\ result.err = "IncompleteResponse"
        /\ bg_pc = "done"

\* the module sent body data, no envelope, and trapped
C1_Witness ==
    /\ Returned
    /\ env_sent = << >>
    /\ body_sent # << >>
    /\ bg_end = "trap"
    /\ result.err = "IncompleteResponse"

\* C2: the reader of a STREAM body is given the chunks the module sent on the
\* body channel, in send order, none lost or repeated, and end-of-stream only
\* after the last of them and after the channel closed.
C2_StreamInOrder ==
    (result.kind = "Ok" /\ result.resp.body.stream) =>
        /\ reader_obs \o response_body_q = body_sent
        /\ reader_eos => (reader_obs = body_sent /\ bg_pc = "done")

\* two different chunks were sent, the reader got both and then end-of-stream
C2_Witness ==
    /\ result.kind = "Ok" /\ result.resp.body.stream
    /\ reader_eos
    /\ Len(reader_obs) = 2
    /\ reader_obs[1] # reader_obs[2]
    /\ env_sent[1].body_type = RESPONSE_BODY_STREAM

\* C3: for BYTES the response carries the envelope's status and headers and
\* the body message verbatim; when no body message was ever sent, call still
\* returns a response, with an empty body.
C3_BytesBody ==
    (Returned /\ env_sent # << >> /\ Head(env_sent).body_type = RESPONSE_BODY_BYTES) =>
        /\ result.kind = "Ok"
        /\ result.resp.status = Head(env_sent).status
        /\ result.resp.headers = Head(env_sent).headers
        /\ ~result.resp.body.stream
        /\ result.resp.body.data = IF body_sent = << >> THEN << >> ELSE Head(body_sent)

\* the module sent a BYTES envelope and ended without a body message
C3_Witness ==
    /\ Returned
    /\ env_sent # << >> /\ Head(env_sent).body_type = RESPONSE_BODY_BYTES
    /\ Head(env_sent).status = 404
    /\ body_sent = << >>
    /\ result.kind = "Ok"
    /\ result.resp.body = EmptyBody

\* C4: for EMPTY the response carries exactly the envelope's status and
\* headers and an empty body, and the call never awaits the body channel.
C4_EmptyBody ==
    (env_sent # << >> /\ Head(env_sent).body_type = RESPONSE_BODY_EMPTY) =>
        /\ fg_pc # "await_body"
        /\ Returned =>
              /\ result.kind = "Ok"
              /\ result.resp.status = Head(env_sent).status
              /\ result.resp.headers = Head(env_sent).headers
              /\ result.resp.body = EmptyBody

\* returned while the module is still running and has sent no body message
C4_Witness ==
    /\ Returned
    /\ env_sent # << >> /\ Head(env_sent).body_type = RESPONSE_BODY_EMPTY
    /\ Head(env_sent).status = 404 /\ Head(env_sent).headers # {}
    /\ result.kind = "Ok" /\ result.resp.headers = Head(env_sent).headers
    /\ bg_pc = "running"
    /\ body_sent = << >>

\* C5 (as claimed): once the negotiation succeeded, the bytes written to the
\* transport's write half are the bytes of the tunnel messages sent, in order
\* (those not yet relayed are still queued), and the bytes the module has read
\* or can still read are the bytes that arrived on the read half, in order.
C5_TunnelBytesInOrder ==
    /\ (upgrade_outcome = "ok" /\ relay_pc \in { "recv", "closed" }) =>
          t_out \o Flatten(upgraded_q) = Flatten(tun_sent)
    /\ (upg_pc = "copying" /\ StoreAlive) =>
          sandbox_read \o duplex_buf \o t_in = t_in_log

\* what the call returns, from the module's messages alone
ResultFromMessages ==
    IF env_sent = << >>
    THEN [kind |-> "Err", resp |-> DefaultResponse, err |-> "IncompleteResponse"]
    ELSE LET e == Head(env_sent)
             body == CASE e.body_type = RESPONSE_BODY_EMPTY -> EmptyBody
                       [] e.body_type = RESPONSE_BODY_BYTES ->
                            IF body_sent = << >> THEN EmptyBody
                            ELSE [stream |-> FALSE, data |-> Head(body_sent)]
                       [] e.body_type = RESPONSE_BODY_STREAM -> [stream |-> TRUE, data |-> << >>]
                       [] OTHER -> EmptyBody  \* no result: the call panics
         IN [kind |-> "Ok",
             resp |-> [status |-> e.status, headers |-> e.headers, body |-> body],
             err |-> ""]

\* C6: the negotiation never shows in the result: for a request with an
\* upgrade intent the result is the one the module's messages determine,
\* whatever the negotiation's state, and the task that awaits the negotiation
\* exists only once the call has returned.
C6_UpgradeOutcomeInvisible ==
    /\ (on_upgrade /\ Returned) => result = ResultFromMessages
    /\ upg_pc \in { "await_upgrade", "copying", "abandoned", "done" } => Returned

\* the negotiation failed, before the call returned its response
C6_Witness ==
    /\ on_upgrade /\ Returned
    /\ result.kind = "Ok"
    /\ upgrade_outcome = "err"
    /\ upg_pc = "abandoned"

\* C7 (as claimed): when the entry point traps, no response is produced.
C7_TrapMeansNoResponse ==
    (bg_end = "trap" /\ Returned) => result.kind = "Err"

\* C7 (amended): a trap is only logged by the task; the call fails, with
\* IncompleteResponse, exactly when the module had sent no envelope before the
\* fault, and otherwise returns the response of the envelope it had sent.
C7_TrapAfterEnvelopeStillResponds ==
    bg_end = "trap" =>
        /\ bg_log = << "wasm error" >>
        /\ Returned =>
              /\ result.kind = "Err" <=> env_sent = << >>
              /\ result.kind = "Err" => result.err = "IncompleteResponse"
              /\ result.kind = "Ok" =>
                    /\ result.resp.status = Head(env_sent).status
                    /\ result.resp.headers = Head(env_sent).headers

\* the module sent an envelope, trapped, and the call returned a response
C7_Witness ==
    /\ bg_end = "trap"
    /\ Returned
    /\ result.kind = "Ok"
    /\ result.resp.status = 404
    /\ bg_log = << "wasm error" >>

(***************************************************************************)
(* Claims about two concurrent calls, and about the lifecycle of one call. *)
(***************************************************************************)
\* what a call returns, from the envelopes es and body messages bs its own module sent
ResultFor(es, bs) ==
    IF es = << >>
    THEN [kind |-> "Err", resp |-> DefaultResponse, err |-> "IncompleteResponse"]
    ELSE LET e == Head(es)
             body == CASE e.body_type = RESPONSE_BODY_BYTES ->
                            IF bs = << >> THEN EmptyBody
                            ELSE [stream |-> FALSE, data |-> Head(bs)]
                       [] e.body_type = RESPONSE_BODY_STREAM -> [stream |-> TRUE, data |-> << >>]
                       [] OTHER -> EmptyBody
         IN [kind |-> "Ok",
             resp |-> [status |-> e.status, headers |-> e.headers, body |-> body],
             err |-> ""]

\* a call's outcome is the one its own module's messages determine
OwnOutcome(st) ==
    /\ st.fg_pc = "returned" => st.result = ResultFor(st.env_sent, st.body_sent)
    /\ (st.result.kind = "Ok" /\ st.result.resp.body.stream) =>
          st.reader_obs \o st.response_body_q = st.body_sent

\* C11: with two calls in flight in any interleaving, each call's outcome (its
\* response, the chunks of its streamed body, or IncompleteResponse) is the one
\* its own module's messages determine, and the Endpoint's registry and user
\* state stay as built whatever the calls do.
C11_CallsAreIsolated ==
    /\ OwnOutcome(CallState)
    /\ OwnOutcome(other)
    /\ BuiltEndpoint

\* one call failed with IncompleteResponse, the other returned its module's response
C11_Witness ==
    /\ other.fg_pc = "returned"
    /\ other.result.err = "IncompleteResponse"
    /\ other.bg_end = "trap"
    /\ Returned
    /\ result.kind = "Ok"
    /\ result.resp.status = 404

\* C12 (as claimed): for every call the task invokes the entry point exactly
\* once: when the task has ended, one invocation has been made.
C12_EntryInvokedExactlyOnce ==
    bg_pc = "done" => start_calls = 1

\* C12 (amended): the entry point is invoked at most once per call and never
\* again after a failure: once when instantiation and the lookup of start
\* succeeded, not at all when either of them failed.
C12_EntryInvokedAtMostOnce ==
    /\ start_calls <= 1
    /\ start_calls = 1 <=> (bg_pc = "running" \/ bg_end \in { "trap", "ok" })
    /\ bg_end \in { "instantiate_err", "no_start" } => start_calls = 0

\* the entry point trapped and was not invoked again
C12_Witness ==
    /\ bg_pc = "done"
    /\ bg_end = "trap"
    /\ start_calls = 1
    /\ Returned

\* C13: when the caller abandons call at one of its awaits, the spawned task
\* is not cancelled and waits for nothing of the foreground: it ends only by
\* its own completion, and until then each of its steps stays possible; no
\* tunnel task exists yet at an await of call, so none is affected.
C13_AbandonDoesNotCancel ==
    fg_pc = "abandoned" =>
        /\ bg_pc = "done" <=> bg_end \in { "instantiate_err", "no_start", "trap", "ok" }
        /\ bg_pc = "instantiate" =>
               ENABLED BgInstantiate(TRUE) /\ ENABLED BgInstantiate(FALSE)
        /\ bg_pc = "get_start" =>
               ENABLED BgGetStart(TRUE) /\ ENABLED BgGetStart(FALSE)
        /\ bg_pc = "running" =>
               /\ ENABLED BgReturn
               /\ ENABLED BgTrap
               /\ mod_ops < MaxModOps =>
                      /\ \A env \in Envelopes : ENABLED ModSendResponse(env)
                      /\ \A data \in Chunks : ENABLED ModSendBody(data)
        /\ upg_pc \in { "none", "dropped" }
        /\ relay_pc = "none"
        /\ result = NoResult

\* the call was abandoned before any envelope was received, and the module
\* still sent its messages and returned from start
C13_Witness ==
    /\ fg_pc = "abandoned"
    /\ resp = DefaultResponse
    /\ on_upgrade
    /\ bg_end = "ok"
    /\ Len(env_sent) = 1
    /\ Len(body_sent) = 2

\* C14: body messages sent before the envelope are kept: while the foreground
\* still waits for the envelope (or for the BYTES body) every body message
\* sent so far is queued, in order, and nothing of it shows in the response;
\* once the call has returned, a BYTES body is the first body message sent and
\* a STREAM body hands out all of them in send order, whenever they were sent.
C14_BodyBeforeEnvelopeTolerated ==
    /\ fg_pc = "await_envelope" =>
           /\ response_body_q = body_sent
           /\ resp = DefaultResponse
           /\ result = NoResult
           /\ reader_obs = << >>
    /\ fg_pc = "await_body" =>
           /\ response_body_q = body_sent
           /\ resp.body = EmptyBody
    /\ (Returned /\ env_sent # << >> /\ body_sent # << >>) =>
           /\ Head(env_sent).body_type = RESPONSE_BODY_BYTES =>
                  result.resp.body = [stream |-> FALSE, data |-> Head(body_sent)]
           /\ Head(env_sent).body_type = RESPONSE_BODY_STREAM =>
                  /\ result.resp.body.stream
                  /\ reader_obs \o response_body_q = body_sent

\* the module has sent two body messages and no envelope yet
C14_Witness ==
    /\ fg_pc = "await_envelope"
    /\ bg_pc = "running"
    /\ env_sent = << >>
    /\ body_sent = << <<2, 3>>, <<1>> >>
    /\ response_body_q = body_sent
    /\ mod_ops < MaxModOps

\* C15: the foreground takes one envelope off the envelope channel and no
\* more: until it does, every envelope sent is queued; afterwards the status,
\* the headers and the kind of body are those of the first envelope sent, the
\* later ones stay unread in the queue, and once the call has returned the
\* receiver is gone.
C15_FirstEnvelopeOnly ==
    /\ fg_pc = "await_envelope" => response_q = env_sent
    /\ fg_pc = "await_body" =>
           /\ response_q = Tail(env_sent)
           /\ resp.status = Head(env_sent).status
           /\ resp.headers = Head(env_sent).headers
           /\ Head(env_sent).body_type = RESPONSE_BODY_BYTES
    /\ (Returned /\ result.kind = "Ok") =>
           /\ result.resp.status = Head(env_sent).status
           /\ result.resp.headers = Head(env_sent).headers
           /\ result.resp.body.stream <=> Head(env_sent).body_type = RESPONSE_BODY_STREAM
           /\ Head(env_sent).body_type = RESPONSE_BODY_EMPTY => result.resp.body = EmptyBody
           /\ response_rx = "dropped"
           /\ response_q = << >>

\* a second envelope with another status, other headers and another kind of
\* body was sent before the call returned the response of the first
C15_Witness ==
    /\ Returned
    /\ result.kind = "Ok"
    /\ Len(env_sent) = 2
    /\ env_sent[1].body_type = RESPONSE_BODY_BYTES
    /\ env_sent[2].body_type = RESPONSE_BODY_STREAM
    /\ env_sent[1].status = 200
    /\ env_sent[2].status = 404
    /\ body_sent = << <<1>> >>
    /\ bg_end = "ok"
    /\ result.resp.status = 200

(***************************************************************************)
(* Claims about the tunnel in the lifecycle of a request.                  *)
(***************************************************************************)
\* the upgrade task exists, or a byte has moved between the duplex and the transport
TunnelActive ==
    \/ upg_pc \in { "await_upgrade", "copying", "abandoned", "done" }
    \/ relay_pc # "none"
    \/ t_out # << >>
    \/ duplex_buf # << >>
    \/ sandbox_read # << >>

\* C16: the upgrade is awaited and bytes are relayed only once the call has
\* returned a response, that is after the envelope was received and, for
\* BYTES, the body message was received or the body channel closed; a call
\* that ends in IncompleteResponse never awaits the upgrade and relays nothing,
\* also when the request carried an upgrade intent.
C16_TunnelAfterResponse ==
    /\ TunnelActive =>
           /\ Returned
           /\ result.kind = "Ok"
           /\ env_sent # << >>
           /\ Head(env_sent).body_type = RESPONSE_BODY_BYTES =>
                  IF body_sent = << >> THEN bg_pc = "done"
                  ELSE result.resp.body.data = Head(body_sent)
    /\ (Returned /\ result.kind = "Err") =>
           /\ result.err = "IncompleteResponse"
           /\ ~TunnelActive
           /\ upg_pc = IF on_upgrade THEN "dropped" ELSE "none"
           /\ upgraded_q = << >>

\* a BYTES response was returned on a request with an upgrade intent, and
\* bytes of the client then reached the module through the duplex
C16_Witness ==
    /\ Returned
    /\ env_sent # << >>
    /\ Head(env_sent).body_type = RESPONSE_BODY_BYTES
    /\ result.resp.body.data = << 2, 3 >>
    /\ upg_pc = "copying"
    /\ sandbox_read = << 7 >>
    /\ duplex_buf = << 8 >>

\* C17 (as claimed): the relay has stopped only because the tunnel channel
\* closed or a write failed, and the copy has stopped only at end-of-stream or
\* an error on the read half of the transport.
C17_CopyStopsOnlyAtReadEnd ==
    /\ relay_pc = "closed" => (~StoreAlive /\ upgraded_q = << >>)
    /\ relay_pc = "write_err" => Len(Flatten(tun_sent)) > Len(t_out)
    /\ upg_pc = "done" => (t_in = << >> /\ t_in_end \in { "eof", "err" })

\* the relay stops when the tunnel channel has closed, and can while a message
\* is there to fail on; the copy stops when the read half has ended; and each
\* direction can go on after the other has stopped
C17_StopsWhenDue ==
    /\ (relay_pc = "recv" /\ upgraded_q = << >> /\ ~StoreAlive) => ENABLED RelayClosed
    /\ (relay_pc = "recv" /\ upgraded_q # << >>) =>
           /\ ~ENABLED RelayClosed
           /\ ENABLED RelayWriteErr
           /\ ENABLED RelayWrite(1)
    /\ (relay_pc = "recv" /\ upgraded_q = << >> /\ StoreAlive) =>
           (~ENABLED RelayClosed /\ ~ENABLED RelayWriteErr)
    /\ (upg_pc = "copying" /\ t_in = << >> /\ t_in_end # "open") => ENABLED CopyEnd
    /\ (upg_pc = "copying" /\ StoreAlive /\ (t_in # << >> \/ t_in_end = "open")) =>
           ~ENABLED CopyEnd
    /\ (upg_pc = "copying" /\ relay_pc # "recv" /\ StoreAlive
          /\ t_in # << >> /\ Len(duplex_buf) < DuplexCap) => ENABLED CopyBytes(1)

\* a step that stops one direction leaves the other direction, and the bytes
\* it has still to deliver, as they are
C17_StopSteps ==
    /\ (relay_pc = "recv" /\ relay_pc' # "recv") =>
           /\ \/ relay_pc' = "closed" /\ upgraded_q = << >> /\ ~StoreAlive
              \/ relay_pc' = "write_err" /\ upgraded_q # << >>
           /\ UNCHANGED << upg_pc, t_in, t_in_end, duplex_buf, sandbox_read, t_out >>
    /\ (upg_pc = "copying" /\ upg_pc' # "copying") =>
           /\ upg_pc' = "done"
           /\ \/ t_in = << >> /\ t_in_end \in { "eof", "err" }
              \/ t_in # << >> /\ ~StoreAlive
           /\ UNCHANGED << relay_pc, upgraded_q, t_out, duplex_buf, sandbox_read >>

\* C17 (amended): the two directions stop independently. The relay stops
\* exactly when the tunnel channel closes or a write fails. The copy stops at
\* end-of-stream or an error on the read half, and also when its write into
\* the duplex fails because the task of the module has ended.  The stop of one
\* direction neither stops the other nor discards bytes the other has to deliver.
C17_DirectionsStopIndependently ==
    /\ []C17_StopsWhenDue
    /\ [][C17_StopSteps]_vars

\* the copy has returned at end-of-stream while the relay still has a message
\* to write and the module is running
C17_Witness ==
    /\ upg_pc = "done"
    /\ t_in_end = "eof"
    /\ t_in_log # << >>
    /\ relay_pc = "recv"
    /\ upgraded_q # << >>
    /\ bg_pc = "running"

(***************************************************************************)
(* Claims about the end of a call.                                         *)
(***************************************************************************)
\* C18: once the task has ended, a call that has not returned yet is not
\* blocked and has not died: its pending recv completes (with a message or
\* with the channel closed), which takes it towards a response or
\* IncompleteResponse.
C18_CallReturnsOnceTaskEnded ==
    (bg_pc = "done" /\ ~Returned) =>
        /\ fg_pc \in { "await_envelope", "await_body" }
        /\ ENABLED FgRecvEnvelope \/ ENABLED FgRecvBody

\* C19: for BYTES the foreground awaits one body message: as soon as one is
\* queued the call can return, whether or not the module is still running,
\* and the body returned is the first body message alone; the receiver is
\* dropped with the return, so later body messages go nowhere.
C19_BytesAwaitsOneMessage ==
    /\ (fg_pc = "await_body" /\ body_sent # << >>) =>
           /\ Head(response_body_q) = Head(body_sent)
           /\ ENABLED FgRecvBody
    /\ (fg_pc = "await_body" /\ body_sent = << >> /\ StoreAlive) => ~ENABLED FgRecvBody
    /\ (Returned /\ env_sent # << >> /\ body_sent # << >>
          /\ Head(env_sent).body_type = RESPONSE_BODY_BYTES) =>
           /\ result.kind = "Ok"
           /\ result.resp.body = [stream |-> FALSE, data |-> Head(body_sent)]
           /\ response_body_rx = "dropped"
           /\ response_body_q = << >>

\* the call returned the first of two body messages while the module was
\* still running
C19_Witness ==
    /\ Returned
    /\ env_sent # << >>
    /\ Head(env_sent).body_type = RESPONSE_BODY_BYTES
    /\ body_sent = << <<1>>, <<2, 3>> >>
    /\ result.resp.body.data = << 1 >>
    /\ bg_pc = "running"

\* C20: whatever envelope the foreground receives, the call goes on to a
\* result: it awaits the body or returns, and never aborts in the dispatch on
\* the body-kind.
C20_EveryEnvelopeLeadsToResult ==
    (fg_pc # "await_envelope" /\ env_sent # << >>) =>
        /\ fg_pc \in { "await_body", "returned" }
        /\ Returned => result.kind \in { "Ok", "Err" }

====
